---- MODULE Spec2Model ----
(***************************************************************************)
(* Strassen matrix multiplication of strassen-algo/matrix-mult.c:          *)
(* check_overflow, add, sub, copy_elems_to_quad, strassen_matrix_multiply  *)
(* and the part of main that calls the multiplier and prints its result.   *)
(*                                                                         *)
(* int is modelled as a two's complement integer of IntBits bits; +, - and *)
(* * wrap modulo 2^IntBits.  INT_MIN / -1, the never-assigned fields res.i *)
(* and res.j, and cells of a struct matrix that were never written are     *)
(* indeterminate in C: the model draws their outcome from small sets.      *)
(***************************************************************************)
EXTENDS Integers, Sequences, FiniteSets, TLC

VARIABLES n0, m1, m2, stack, status, m3, out, fault, stale,
          calls, baseCalls, ops, arith

vars == <<n0, m1, m2, stack, status, m3, out, fault, stale,
          calls, baseCalls, ops, arith>>

machineVars == <<n0, m1, m2, stack, status, m3, out, fault, stale,
                 calls, baseCalls, ops>>

----------------------------------------------------------------------------
(* Bounds and program constants *)

NUM_ELEMS == 16

IntBits == 8

MaxStack == 6

MaxDenseDim == 4

RECURSIVE Pow2(_)
Pow2(k) == IF k = 0 THEN 1 ELSE 2 * Pow2(k - 1)

Modulus == Pow2(IntBits)
MaxInt  == Pow2(IntBits - 1) - 1
MinInt  == -Pow2(IntBits - 1)
IntRange == MinInt..MaxInt

\* not yet read: the stale words; no matrix; nothing printed
Unknown  == [i |-> -1, j |-> -1, junk |-> 0]
NoMatrix == [m |-> << >>, i |-> 0, j |-> 0, init |-> FALSE]
NoOutput == [strassen |-> << >>, standard |-> << >>]

----------------------------------------------------------------------------
(* int arithmetic *)

Abs(x) == IF x < 0 THEN -x ELSE x

\* the value an int holds after an arithmetic result x is stored in it
Wrap(x) == ((x - MinInt) % Modulus) + MinInt

\* unary minus on int
Neg(x) == Wrap(-x)

\* C's / on int: truncation toward zero (b # 0, not MinInt / -1)
CDiv(a, b) ==
    IF (a < 0) = (b < 0) THEN Abs(a) \div Abs(b) ELSE -(Abs(a) \div Abs(b))

\* s / a where the quotient is not representable
DivUndefined(s, a) == s = MinInt /\ a = -1

\* the outcomes of INT_MIN / -1: the division traps, or it yields INT_MIN
DivOutcomes == {"trap", "wrap"}

Quot(s, a) == IF DivUndefined(s, a) THEN MinInt ELSE CDiv(s, a)

\* check_overflow(a, b, add, mult): "ok" when it returns, "overflow" when it
\* prints the diagnostic and exits, "trap" when its division traps
check_overflow(a, b, add, mult, d) ==
    LET sa == Wrap(a + b)
        sm == Wrap(a * b)
    IN  IF add /\ (a > 0 /\ b > 0) /\ sa < 0 THEN "overflow"
        ELSE IF add /\ (a < 0 /\ b < 0) /\ sa > 0 THEN "overflow"
        ELSE IF ~mult THEN "ok"
        ELSE IF a # 0 /\ DivUndefined(sm, a) /\ d = "trap" THEN "trap"
        ELSE IF a # 0 /\ Quot(sm, a) # b THEN "overflow"
        ELSE IF b # 0 /\ DivUndefined(sm, b) /\ d = "trap" THEN "trap"
        ELSE IF b # 0 /\ Quot(sm, b) # a THEN "overflow"
        ELSE "ok"

\* one cell of add(): the check, then the stored sum
CellAdd(x, y) ==
    [st |-> check_overflow(x, y, TRUE, FALSE, "wrap"), val |-> Wrap(x + y)]

\* one cell of sub(): the check on (x, -y), then the stored difference
CellSub(x, y) ==
    [st |-> check_overflow(x, Neg(y), TRUE, FALSE, "wrap"), val |-> Wrap(x - y)]

\* a product of the base case: the check, then the stored product
CellMul(x, y, d) ==
    [st |-> check_overflow(x, y, FALSE, TRUE, d), val |-> Wrap(x * y)]

----------------------------------------------------------------------------
(* struct matrix: the cells that were written, the offsets i and j, and     *)
(* whether i and j were assigned from assigned values                       *)

Grid == (0..(NUM_ELEMS - 1)) \X (0..(NUM_ELEMS - 1))

InGrid(r, c) == r \in 0..(NUM_ELEMS - 1) /\ c \in 0..(NUM_ELEMS - 1)

Cells(i, j, n) == {<<i + r, j + c>> : r \in 0..(n - 1), c \in 0..(n - 1)}

\* what the stack holds where the program never stored anything: the pair
\* found in res.i and res.j, and the value found in an unwritten cell
StaleEnvs ==
    { [i |-> 0, j |-> 0, junk |-> 0],
      [i |-> 1, j |-> 1, junk |-> 0],
      [i |-> 1, j |-> 1, junk |-> MaxInt],
      [i |-> NUM_ELEMS, j |-> 0, junk |-> 0] }

\* mat.m[r][c]
Read(mat, r, c, junk) ==
    IF <<r, c>> \in DOMAIN mat.m THEN mat.m[<<r, c>>] ELSE junk

NoFault == [fn |-> "none"]

\* a quadrant: its offsets are set, then copy_elems_to_quad copies num x num
\* cells of src to the same positions of the quadrant
copy_elems_to_quad(i, j, src, num, junk) ==
    [m |-> [p \in Cells(i, j, num) |-> Read(src, p[1], p[2], junk)],
     i |-> i, j |-> j, init |-> src.init]

\* a scan that goes on after a failing cell: it reports the last cell, from
\* number k down, whose check does not return (C8 tells it from Scan)
RECURSIVE LastBad(_, _, _, _, _, _)
LastBad(fn, a, b, n, k, junk) ==
    IF k < 0 THEN [st |-> "ok", k |-> n * n]
    ELSE LET r == k \div n
             c == k % n
             x == Read(a, a.i + r, a.j + c, junk)
             y == Read(b, b.i + r, b.j + c, junk)
             cell == IF fn = "add" THEN CellAdd(x, y) ELSE CellSub(x, y)
         IN  IF ~(InGrid(a.i + r, a.j + c) /\ InGrid(b.i + r, b.j + c))
             THEN [st |-> "memfault", k |-> k]
             ELSE IF cell.st # "ok" THEN [st |-> cell.st, k |-> k]
             ELSE LastBad(fn, a, b, n, k - 1, junk)

ScanMutant(fn, a, b, n, k, junk) == LastBad(fn, a, b, n, n * n - 1, junk)

\* the r, c loops of add() and sub() from cell number k on (row-major):
\* where they stop, and why
RECURSIVE Scan(_, _, _, _, _, _)
Scan(fn, a, b, n, k, junk) ==
    IF k = n * n THEN [st |-> "ok", k |-> k]
    ELSE LET r == k \div n
             c == k % n
             x == Read(a, a.i + r, a.j + c, junk)
             y == Read(b, b.i + r, b.j + c, junk)
             cell == IF fn = "add" THEN CellAdd(x, y) ELSE CellSub(x, y)
         IN  IF ~(InGrid(a.i + r, a.j + c) /\ InGrid(b.i + r, b.j + c))
             THEN [st |-> "memfault", k |-> k]
             ELSE IF cell.st # "ok" THEN [st |-> cell.st, k |-> k]
             ELSE Scan(fn, a, b, n, k + 1, junk)

\* the cells of m stored before cell number k
Stored(fn, a, b, n, junk, k) ==
    [p \in {<<a.i + (q \div n), a.j + (q % n)>> : q \in 0..(k - 1)} |->
       IF fn = "add"
       THEN CellAdd(Read(a, p[1], p[2], junk),
                    Read(b, b.i + (p[1] - a.i), b.j + (p[2] - a.j), junk)).val
       ELSE CellSub(Read(a, p[1], p[2], junk),
                    Read(b, b.i + (p[1] - a.i), b.j + (p[2] - a.j), junk)).val]

\* add(a, b, n) and sub(a, b, n) once the loops stopped as s says: the
\* matrix m as far as it was computed, and the number of checks made
Partial(fn, a, b, n, junk, s) ==
    [st  |-> s.st,
     mat |-> [m |-> Stored(fn, a, b, n, junk, s.k),
              i |-> a.i, j |-> a.j, init |-> a.init],
     ops |-> IF s.st = "overflow" THEN s.k + 1 ELSE s.k,
     fault |-> IF s.st = "ok" THEN NoFault
               ELSE [fn |-> fn, k |-> s.k, n |-> n, a |-> a, b |-> b,
                     junk |-> junk,
                     m |-> Stored(fn, a, b, n, junk, s.k)]]

Elementwise(fn, a, b, n, junk) ==
    Partial(fn, a, b, n, junk, Scan(fn, a, b, n, 0, junk))

add(a, b, n, junk) == Elementwise("add", a, b, n, junk)

sub(a, b, n, junk) == Elementwise("sub", a, b, n, junk)

\* a matrix that is passed on as it is
Plain(a) == [st |-> "ok", mat |-> a, ops |-> 0, fault |-> NoFault]

\* the checks of an inner call count too
MoreOps(t, o) == [t EXCEPT !.ops = o + t.ops]

\* f(g(..), b, n): the inner call first; its failure ends the program
ThenAdd(res, b, n, junk) ==
    IF res.st # "ok" THEN res ELSE MoreOps(add(res.mat, b, n, junk), res.ops)

ThenSub(res, b, n, junk) ==
    IF res.st # "ok" THEN res ELSE MoreOps(sub(res.mat, b, n, junk), res.ops)

----------------------------------------------------------------------------
(* The base case, n = 2 (p1..p7 are the ints m1..m7 of the source)          *)

\* the first of the checks, from number k on, that does not return
RECURSIVE FirstBad(_, _, _)
FirstBad(checks, k, d) ==
    IF k > Len(checks) THEN [st |-> "ok", k |-> k]
    ELSE LET t == checks[k]
             st == check_overflow(t[1], t[2], t[3], ~t[3], d)
         IN  IF st # "ok" THEN [st |-> st, k |-> k]
             ELSE FirstBad(checks, k + 1, d)

\* the products m1..m7 of the entries x = <<a00, a01, a10, a11>> and
\* y = <<b00, b01, b10, b11>>
Products(x, y) ==
    << Wrap(Wrap(x[1] + x[4]) * Wrap(y[1] + y[4])),
       Wrap(Wrap(x[3] + x[4]) * y[1]),
       Wrap(x[1] * Wrap(y[2] - y[4])),
       Wrap(x[4] * Wrap(y[3] - y[1])),
       Wrap(Wrap(x[1] + x[2]) * y[4]),
       Wrap(Wrap(x[3] - x[1]) * Wrap(y[1] + y[2])),
       Wrap(Wrap(x[2] - x[4]) * Wrap(y[3] + y[4])) >>

\* the calls of check_overflow in their order: <<a, b, add>>, mult = ~add
Checks(x, y, p) ==
    << <<x[1], x[4], TRUE>>, <<y[1], y[4], TRUE>>,
       <<Wrap(x[1] + x[4]), Wrap(y[1] + y[4]), FALSE>>,
       <<x[3], x[4], TRUE>>, <<Wrap(x[3] + x[4]), y[1], FALSE>>,
       <<y[2], Neg(y[4]), TRUE>>, <<x[1], Wrap(y[2] - y[4]), FALSE>>,
       <<y[3], Neg(y[1]), TRUE>>, <<x[4], Wrap(y[3] - y[1]), FALSE>>,
       <<x[1], x[2], TRUE>>, <<Wrap(x[1] + x[2]), y[4], FALSE>>,
       <<x[3], Neg(x[1]), TRUE>>, <<y[1], y[2], TRUE>>,
       <<Wrap(x[3] - x[1]), Wrap(y[1] + y[2]), FALSE>>,
       <<x[2], Neg(x[4]), TRUE>>, <<y[3], y[4], TRUE>>,
       <<Wrap(x[2] - x[4]), Wrap(y[3] + y[4]), FALSE>>,
       <<p[1], p[4], TRUE>>, <<Wrap(p[1] + p[4]), Neg(p[5]), TRUE>>,
       <<Wrap(Wrap(p[1] + p[4]) - p[5]), p[7], TRUE>>,
       <<p[3], p[5], TRUE>>,
       <<p[2], p[4], TRUE>>,
       <<p[1], Neg(p[2]), TRUE>>, <<Wrap(p[1] - p[2]), p[3], TRUE>>,
       <<Wrap(Wrap(p[1] - p[2]) + p[3]), p[6], TRUE>> >>

\* the matrix c
BaseResult(a, p) ==
    [m |-> [q \in Cells(a.i, a.j, 2) |->
              IF q = <<a.i, a.j>>
              THEN Wrap(Wrap(Wrap(p[1] + p[4]) - p[5]) + p[7])
              ELSE IF q = <<a.i, a.j + 1>> THEN Wrap(p[3] + p[5])
              ELSE IF q = <<a.i + 1, a.j>> THEN Wrap(p[2] + p[4])
              ELSE Wrap(Wrap(Wrap(p[1] - p[2]) + p[3]) + p[6])],
     i |-> a.i, j |-> a.j, init |-> a.init]

BaseOutcome(a, b, p, checks, bad) ==
    IF ~(InGrid(a.i + 1, a.j + 1) /\ InGrid(b.i + 1, b.j + 1))
    THEN [st |-> "memfault", mat |-> NoMatrix, ops |-> 0,
          fault |-> [fn |-> "base", k |-> 0, x |-> 0, y |-> 0]]
    ELSE IF bad.st # "ok"
    THEN [st |-> bad.st, mat |-> NoMatrix, ops |-> bad.k,
          fault |-> [fn |-> "base", k |-> bad.k,
                     x |-> checks[bad.k][1], y |-> checks[bad.k][2]]]
    ELSE [st |-> "ok", mat |-> BaseResult(a, p), ops |-> Len(checks),
          fault |-> NoFault]

BaseChecked(a, b, d, p, checks) ==
    BaseOutcome(a, b, p, checks, FirstBad(checks, 1, d))

BaseEntries(a, b, d, x, y) ==
    BaseChecked(a, b, d, Products(x, y), Checks(x, y, Products(x, y)))

\* the n = 2 branch of strassen_matrix_multiply(a, b, 2)
BaseCase(a, b, d, junk) ==
    BaseEntries(a, b, d,
                << Read(a, a.i, a.j, junk), Read(a, a.i, a.j + 1, junk),
                   Read(a, a.i + 1, a.j, junk), Read(a, a.i + 1, a.j + 1, junk) >>,
                << Read(b, b.i, b.j, junk), Read(b, b.i, b.j + 1, junk),
                   Read(b, b.i + 1, b.j, junk), Read(b, b.i + 1, b.j + 1, junk) >>)

----------------------------------------------------------------------------
(* The matrices main hands to the multiplier *)

\* the dimensions -n is given: the powers of two up to NUM_ELEMS, and 0, 3
\* and NUM_ELEMS + 1
Dims == {0, 2, 3, 4, 8, NUM_ELEMS, NUM_ELEMS + 1}

DenseKinds == {"zero", "ident", "unit", "ones", "rampA", "rampB", "big", "late"}

LargeKinds == {"zero", "ident", "unit"}

KindsFor(n) == IF n <= MaxDenseDim THEN DenseKinds ELSE LargeKinds

Entry(kind, n, r, c) ==
    CASE kind = "zero"  -> 0
      [] kind = "ident" -> IF r = c THEN 1 ELSE 0
      [] kind = "unit"  -> IF r = 0 /\ c = n - 1 THEN 1 ELSE 0
      [] kind = "ones"  -> 1
      [] kind = "rampA" -> r * n + c + 1
      [] kind = "rampB" -> n * n + r * n + c + 1
      [] kind = "big"   -> MaxInt
      [] kind = "late"  -> IF (r + c) % 2 = 1 THEN MaxInt ELSE 0

\* main zeroes the whole grid; read_from_file or generate_random then set
\* i = j = 0 and fill n x n cells with non-negative values
Input(kind, n) ==
    [m |-> [p \in Grid |->
              IF n <= NUM_ELEMS /\ p \in Cells(0, 0, n)
              THEN Entry(kind, n, p[1], p[2]) ELSE 0],
     i |-> 0, j |-> 0, init |-> TRUE]

----------------------------------------------------------------------------
(* The call stack of strassen_matrix_multiply *)

MPcs == {"M1", "M2", "M3", "M4", "M5", "M6", "M7"}
QPcs == {"Q1", "Q2", "Q3", "Q4"}

PcOrder == <<"entry", "M1", "M2", "M3", "M4", "M5", "M6", "M7",
             "Q1", "Q2", "Q3", "Q4", "ret">>

PcIndex(pc) == CHOOSE k \in 1..Len(PcOrder) : PcOrder[k] = pc

NextPc(pc) == PcOrder[PcIndex(pc) + 1]

Frame(a, b, n) ==
    [n |-> n, a |-> a, b |-> b, pc |-> "entry",
     qa |-> << >>, qb |-> << >>, M |-> << >>, Q |-> << >>]

Top == stack[Len(stack)]

JunkNow == IF stale = Unknown THEN 0 ELSE stale.junk

Terminal == {"done", "overflow", "trap", "memfault", "stack_overflow",
             "invalid_dimension"}

ArithIdle == [op |-> "idle"]

\* check_overflow, or a trapping or wild access, ends the program
Fail(st, f, o) ==
    /\ status' = st
    /\ fault' = f
    /\ ops' = ops + o
    /\ UNCHANGED <<n0, m1, m2, stack, m3, out, stale, calls, baseCalls, arith>>

\* return mat: to main, or into the next M of the calling frame
Return(mat) ==
    IF Len(stack) = 1
    THEN /\ stack' = << >>
         /\ m3' = mat
         /\ status' = "returned"
    ELSE LET caller == stack[Len(stack) - 1]
         IN  /\ stack' = SubSeq(stack, 1, Len(stack) - 2) \o
                           <<[caller EXCEPT !.M = Append(@, mat),
                                            !.pc = NextPc(@)]>>
             /\ m3' = m3
             /\ status' = status

\* the quadrants A00, A01, A10, A11 of a (and of b)
Quadrants(a, n, junk) ==
    LET h == n \div 2
    IN  << copy_elems_to_quad(a.i, a.j, a, h, junk),
           copy_elems_to_quad(a.i, a.j + h, a, h, junk),
           copy_elems_to_quad(a.i + h, a.j, a, h, junk),
           copy_elems_to_quad(a.i + h, a.j + h, a, h, junk) >>

\* the first and the second argument of the call that computes Mk
ArgA(f, k, junk) ==
    LET h == f.n \div 2
        A00 == f.qa[1]  A01 == f.qa[2]  A10 == f.qa[3]  A11 == f.qa[4]
    IN  CASE k = 1 -> add(A00, A11, h, junk)
          [] k = 2 -> add(A10, A11, h, junk)
          [] k = 3 -> Plain(A00)
          [] k = 4 -> Plain(A11)
          [] k = 5 -> add(A00, A01, h, junk)
          [] k = 6 -> sub(A10, A00, h, junk)
          [] k = 7 -> sub(A01, A11, h, junk)

ArgB(f, k, junk) ==
    LET h == f.n \div 2
        B00 == f.qb[1]  B01 == f.qb[2]  B10 == f.qb[3]  B11 == f.qb[4]
    IN  CASE k = 1 -> add(B00, B11, h, junk)
          [] k = 2 -> Plain(B00)
          [] k = 3 -> sub(B01, B11, h, junk)
          [] k = 4 -> sub(B10, B00, h, junk)
          [] k = 5 -> Plain(B11)
          [] k = 6 -> add(B00, B01, h, junk)
          [] k = 7 -> add(B10, B11, h, junk)

\* Q1..Q4 from M1..M7
QBlock(f, k, junk) ==
    LET h == f.n \div 2
        M == f.M
    IN  CASE k = 1 -> ThenAdd(ThenSub(add(M[1], M[4], h, junk), M[5], h, junk),
                              M[7], h, junk)
          [] k = 2 -> add(M[3], M[5], h, junk)
          [] k = 3 -> add(M[2], M[4], h, junk)
          [] k = 4 -> ThenAdd(ThenAdd(sub(M[1], M[2], h, junk), M[3], h, junk),
                              M[6], h, junk)

\* the cell of Q1..Q4 that the four copy loops store in res.m[r][c]
ResSource(f, r, c) ==
    LET h == f.n \div 2
        q == IF r < h THEN (IF c < h THEN f.Q[1] ELSE f.Q[2])
             ELSE (IF c < h THEN f.Q[3] ELSE f.Q[4])
        i == IF r < h THEN r ELSE r - h
        j == IF c < h THEN c ELSE c - h
    IN  [q |-> q, r |-> q.i + i, c |-> q.j + j]

\* res: its cells are copied from Q1..Q4; res.i and res.j are never assigned
Assemble(f, e) ==
    [m |-> [p \in Cells(0, 0, f.n) |->
              LET s == ResSource(f, p[1], p[2])
              IN  Read(s.q, s.r, s.c, e.junk)],
     i |-> e.i, j |-> e.j, init |-> FALSE]

AssembleInGrid(f) ==
    \A p \in Cells(0, 0, f.n) :
        LET s == ResSource(f, p[1], p[2]) IN InGrid(s.r, s.c)

----------------------------------------------------------------------------
(* The program: main calls the multiplier and prints what it returns *)

Init ==
    /\ n0 \in Dims
    /\ \E ka \in KindsFor(n0), kb \in KindsFor(n0) :
          /\ m1 = Input(ka, n0)
          /\ m2 = Input(kb, n0)
    /\ stack = << >>
    /\ status = "start"
    /\ m3 = NoMatrix
    /\ out = NoOutput
    /\ fault = NoFault
    /\ stale = Unknown
    /\ calls = 0
    /\ baseCalls = 0
    /\ ops = 0
    /\ arith = ArithIdle

\* main: -n above NUM_ELEMS exits with failure; otherwise
\* m3 = strassen_matrix_multiply(m1, m2, n)
MainCall ==
    /\ status = "start"
    /\ IF n0 > NUM_ELEMS
       THEN /\ status' = "invalid_dimension"
            /\ UNCHANGED <<stack, calls>>
       ELSE /\ status' = "running"
            /\ stack' = <<Frame(m1, m2, n0)>>
            /\ calls' = calls + 1
    /\ UNCHANGED <<n0, m1, m2, m3, out, fault, stale, baseCalls, ops, arith>>

\* n # 2: the eight quadrants are set up
Split ==
    /\ status = "running"
    /\ Top.pc = "entry"
    /\ Top.n # 2
    /\ stack' = [stack EXCEPT ![Len(stack)] =
                   [@ EXCEPT !.qa = Quadrants(Top.a, Top.n, JunkNow),
                             !.qb = Quadrants(Top.b, Top.n, JunkNow),
                             !.pc = "M1"]]
    /\ UNCHANGED <<n0, m1, m2, status, m3, out, fault, stale, calls,
                   baseCalls, ops, arith>>

\* the end of the n = 2 branch: the program ends, or c is returned
BaseDone(res) ==
    /\ IF res.st # "ok"
       THEN /\ status' = res.st
            /\ fault' = res.fault
            /\ UNCHANGED <<stack, m3>>
       ELSE /\ Return(res.mat)
            /\ fault' = fault
    /\ ops' = ops + res.ops

\* n = 2: the checks, the seven products, and return c
Base ==
    /\ status = "running"
    /\ Top.pc = "entry"
    /\ Top.n = 2
    /\ \E d \in DivOutcomes : BaseDone(BaseCase(Top.a, Top.b, d, JunkNow))
    /\ baseCalls' = baseCalls + 1
    /\ UNCHANGED <<n0, m1, m2, out, stale, calls, arith>>

\* the call once its arguments r1 and r2 were evaluated, r1 first
Call(r1, r2, ra, rb) ==
    IF r1.st # "ok" THEN Fail(r1.st, r1.fault, r1.ops)
    ELSE IF r2.st # "ok" THEN Fail(r2.st, r2.fault, r1.ops + r2.ops)
    ELSE IF Len(stack) >= MaxStack
    THEN Fail("stack_overflow", NoFault, r1.ops + r2.ops)
    ELSE /\ stack' = Append(stack, Frame(ra.mat, rb.mat, Top.n \div 2))
         /\ calls' = calls + 1
         /\ ops' = ops + r1.ops + r2.ops
         /\ UNCHANGED <<n0, m1, m2, status, m3, out, fault, stale,
                        baseCalls, arith>>

CallArgs(ra, rb) == Call(ra, rb, ra, rb) \/ Call(rb, ra, ra, rb)

\* Mk = strassen_matrix_multiply(<first argument>, <second argument>, n/2):
\* the two arguments are evaluated in either order, then the call is made
CallM ==
    /\ status = "running"
    /\ Top.pc \in MPcs
    /\ CallArgs(ArgA(Top, PcIndex(Top.pc) - 1, JunkNow),
                ArgB(Top, PcIndex(Top.pc) - 1, JunkNow))

QDone(res) ==
    IF res.st # "ok" THEN Fail(res.st, res.fault, res.ops)
    ELSE /\ stack' = [stack EXCEPT ![Len(stack)] =
                        [@ EXCEPT !.Q = Append(@, res.mat),
                                  !.pc = NextPc(@)]]
         /\ ops' = ops + res.ops
         /\ UNCHANGED <<n0, m1, m2, status, m3, out, fault, stale,
                        calls, baseCalls, arith>>

\* Qk = the sums and differences of M1..M7
QStep ==
    /\ status = "running"
    /\ Top.pc \in QPcs
    /\ QDone(QBlock(Top, PcIndex(Top.pc) - 8, JunkNow))

\* the four copy loops of res, and return res
Ret ==
    /\ status = "running"
    /\ Top.pc = "ret"
    /\ \E e \in (IF stale = Unknown THEN StaleEnvs ELSE {stale}) :
          /\ stale' = e
          /\ IF ~AssembleInGrid(Top)
             THEN /\ status' = "memfault"
                  /\ fault' = [fn |-> "res"]
                  /\ UNCHANGED <<stack, m3>>
             ELSE /\ Return(Assemble(Top, e))
                  /\ fault' = fault
    /\ UNCHANGED <<n0, m1, m2, out, calls, baseCalls, ops, arith>>

\* the standard multiplication of main: m3.m[i][j] += m1.m[i][k] * m2.m[k][j]
RECURSIVE StandardCell(_, _, _, _)
StandardCell(r, c, k, acc) ==
    IF k = n0 THEN acc
    ELSE StandardCell(r, c, k + 1,
                      Wrap(acc + Wrap(m1.m[<<r, k>>] * m2.m[<<k, c>>])))

\* main prints m3.m[m3.i + i][m3.j + j], then the standard product
MainPrint ==
    /\ status = "returned"
    /\ IF \A p \in Cells(0, 0, n0) : InGrid(m3.i + p[1], m3.j + p[2])
       THEN /\ status' = "done"
            /\ out' = [strassen |-> [p \in Cells(0, 0, n0) |->
                          Read(m3, m3.i + p[1], m3.j + p[2], JunkNow)],
                       standard |-> [p \in Cells(0, 0, n0) |->
                          StandardCell(p[1], p[2], 0, 0)]]
            /\ fault' = fault
       ELSE /\ status' = "memfault"
            /\ fault' = [fn |-> "print"]
            /\ out' = out
    /\ UNCHANGED <<n0, m1, m2, stack, m3, stale, calls, baseCalls, ops, arith>>

Next == MainCall \/ Split \/ Base \/ CallM \/ QStep \/ Ret \/ MainPrint

Spec == Init /\ [][Next]_vars

----------------------------------------------------------------------------
(* The checked operations on their own, over every pair of ints *)

InitArith ==
    /\ arith \in [op : {"none"}, a : IntRange, b : IntRange,
                  st : {"none"}, val : {0}]
    /\ n0 = 0
    /\ m1 = NoMatrix
    /\ m2 = NoMatrix
    /\ stack = << >>
    /\ status = "idle"
    /\ m3 = NoMatrix
    /\ out = NoOutput
    /\ fault = NoFault
    /\ stale = Unknown
    /\ calls = 0
    /\ baseCalls = 0
    /\ ops = 0

\* a cell of add(): check_overflow(a, b, true, false); m = a + b
ApplyAdd ==
    /\ arith.op = "none"
    /\ arith' = [arith EXCEPT !.op = "add",
                              !.st = CellAdd(arith.a, arith.b).st,
                              !.val = CellAdd(arith.a, arith.b).val]
    /\ UNCHANGED machineVars

\* a cell of sub(): check_overflow(a, -b, true, false); m = a - b
ApplySub ==
    /\ arith.op = "none"
    /\ arith' = [arith EXCEPT !.op = "sub",
                              !.st = CellSub(arith.a, arith.b).st,
                              !.val = CellSub(arith.a, arith.b).val]
    /\ UNCHANGED machineVars

\* a product of the base case: check_overflow(a, b, false, true); m = a * b
ApplyMul ==
    /\ arith.op = "none"
    /\ \E d \in DivOutcomes :
          arith' = [arith EXCEPT !.op = "mul",
                                 !.st = CellMul(arith.a, arith.b, d).st,
                                 !.val = CellMul(arith.a, arith.b, d).val]
    /\ UNCHANGED machineVars

NextArith == ApplyAdd \/ ApplySub \/ ApplyMul

SpecArith == InitArith /\ [][NextArith]_vars

----------------------------------------------------------------------------
(* Properties *)

ValidDim(n) == n \in {2, 4, 8, NUM_ELEMS}

RECURSIVE Log2(_)
Log2(n) == IF n <= 1 THEN 0 ELSE 1 + Log2(n \div 2)

RECURSIVE Pow7(_)
Pow7(k) == IF k = 0 THEN 1 ELSE 7 * Pow7(k - 1)

\* the exact value of sum_k m1[r][k] * m2[k][c], k < n0
RECURSIVE ExactCell(_, _, _)
ExactCell(r, c, k) ==
    IF k = n0 THEN 0
    ELSE m1.m[<<r, k>>] * m2.m[<<k, c>>] + ExactCell(r, c, k + 1)

\* the sum of the entries c.. of row r of mat (the inputs are non-negative)
RECURSIVE RowSum(_, _, _)
RowSum(mat, r, c) ==
    IF c = n0 THEN 0 ELSE mat.m[<<r, c>>] + RowSum(mat, r, c + 1)

\* the sum of the entries of the rows r.. of the n0 x n0 matrix mat
RECURSIVE EntrySum(_, _)
EntrySum(mat, r) ==
    IF r = n0 THEN 0 ELSE RowSum(mat, r, 0) + EntrySum(mat, r + 1)

\* every sum and difference of entries is at most the entry sum of its
\* matrix, and every product, sum or difference of products at most four
\* times the product of the two entry sums: no value can overflow
SmallEnough ==
    /\ EntrySum(m1, 0) <= MaxInt
    /\ EntrySum(m2, 0) <= MaxInt
    /\ 4 * EntrySum(m1, 0) * EntrySum(m2, 0) <= MaxInt

PrintedExact ==
    /\ status = "done"
    /\ \A p \in Cells(0, 0, n0) : out.strassen[p] = ExactCell(p[1], p[2], 0)

IsIdentity(mat) ==
    \A p \in Cells(0, 0, n0) : mat.m[p] = IF p[1] = p[2] THEN 1 ELSE 0

WellFormed(mat, size) ==
    /\ mat.init
    /\ mat.i >= 0 /\ mat.i + size <= NUM_ELEMS
    /\ mat.j >= 0 /\ mat.j + size <= NUM_ELEMS
    /\ Cells(mat.i, mat.j, size) \subseteq DOMAIN mat.m

Failed == status = "overflow"

\* C1: for power-of-two n and inputs small enough that nothing can
\* overflow, the program ends having printed, as the cells of the matrix
\* the multiplier returned, exactly the cells of the product m1 x m2.
C1_Equivalence ==
    (status \in Terminal /\ ValidDim(n0) /\ SmallEnough) => PrintedExact

\* C2: for non-negative inputs of power-of-two dimension, the program
\* either ends with the overflow failure or yields a matrix whose every
\* cell is the exact product cell.
C2_OverflowFatality ==
    (status \in Terminal /\ ValidDim(n0)) =>
        (status = "overflow" \/ PrintedExact)

\* C3: with n = 0, n = 3 or n > NUM_ELEMS nothing is added, subtracted or
\* multiplied and no recursive call is made, and the program ends with the
\* invalid-dimension failure.
C3_DimensionValidation ==
    ~ValidDim(n0) =>
        /\ ops = 0
        /\ calls <= 1
        /\ status \in Terminal => status = "invalid_dimension"

\* C4: checked addition signals overflow exactly when a + b is not
\* representable, and otherwise the stored sum is a + b.
C4_CheckedAdd ==
    arith.op = "add" =>
        /\ (arith.st = "overflow") <=> (arith.a + arith.b \notin IntRange)
        /\ arith.st = "ok" => arith.val = arith.a + arith.b

\* C5: checked subtraction signals overflow exactly when a - b is not
\* representable, and otherwise the stored difference is a - b.
C5_CheckedSub ==
    arith.op = "sub" =>
        /\ (arith.st = "overflow") <=> (arith.a - arith.b \notin IntRange)
        /\ arith.st = "ok" => arith.val = arith.a - arith.b

\* C6: checked multiplication signals overflow exactly when a * b is not
\* representable (in particular for (-1, MIN) and (MIN, -1)), and never
\* with a zero operand.
C6_CheckedMul ==
    arith.op = "mul" =>
        (arith.st = "overflow") <=> (arith.a * arith.b \notin IntRange)

\* C7: with n = 4, m1 the identity and m2 of non-negative entries (here even
\* small enough that nothing can overflow), the program ends having printed,
\* as the cells of the matrix the multiplier returned, the cells of m2.
C7_IdentityN4 ==
    (status \in Terminal /\ n0 = 4 /\ IsIdentity(m1) /\ SmallEnough) =>
        /\ status = "done"
        /\ \A p \in Cells(0, 0, n0) : out.strassen[p] = m2.m[p]

\* the cell at which add or sub ended the program is the first cell, in
\* row-major order, whose check signals; exactly the cells before it were
\* stored
FaultAtFirstCell ==
    (status = "overflow" /\ fault.fn \in {"add", "sub"}) =>
        LET cellSt(q) ==
                LET x == Read(fault.a, fault.a.i + (q \div fault.n),
                              fault.a.j + (q % fault.n), fault.junk)
                    y == Read(fault.b, fault.b.i + (q \div fault.n),
                              fault.b.j + (q % fault.n), fault.junk)
                IN  IF fault.fn = "add" THEN CellAdd(x, y).st
                    ELSE CellSub(x, y).st
        IN  /\ fault.k \in 0..(fault.n * fault.n - 1)
            /\ cellSt(fault.k) = "overflow"
            /\ \A q \in 0..(fault.k - 1) : cellSt(q) = "ok"
            /\ DOMAIN fault.m =
                 {<<fault.a.i + (q \div fault.n), fault.a.j + (q % fault.n)>> :
                    q \in 0..(fault.k - 1)}

\* a program that failed on overflow has returned and printed nothing
FailedNoResult == Failed => (m3 = NoMatrix /\ out = NoOutput)

\* C8: add and sub fail at the first cell whose check signals and compute
\* no later cell; once the program has failed there is no further check,
\* call, return or result: the failed state is absorbing.
C8_FailFast ==
    /\ [](FaultAtFirstCell /\ FailedNoResult)
    /\ [][Failed => UNCHANGED vars]_vars

\* C8 witness: a sum or difference failed after its first cell, inside a
\* call of the multiplier that had work left to do
C8_Witness ==
    /\ status = "overflow"
    /\ fault.fn \in {"add", "sub"}
    /\ fault.k > 0
    /\ stack # << >>
    /\ ops > 0

\* C9: for power-of-two n and inputs that cannot overflow, the calls nest
\* log2(n) deep, the k-th recursive call of a frame is made with M1..M(k-1)
\* returned and on dimension n/2, Q-blocks are combined only with all seven
\* returned, and the program ends after 7^(log2(n)-1) base cases.
C9_RecursionStructure ==
    (ValidDim(n0) /\ SmallEnough) =>
        /\ Len(stack) <= Log2(n0)
        /\ \A d \in 1..Len(stack) :
              /\ stack[d].n * Pow2(d - 1) = n0
              /\ stack[d].pc \in MPcs =>
                    Len(stack[d].M) = PcIndex(stack[d].pc) - 2
              /\ stack[d].pc \in QPcs \cup {"ret"} => Len(stack[d].M) = 7
        /\ status \in Terminal =>
              /\ baseCalls = Pow7(Log2(n0) - 1)
              /\ calls = (Pow7(Log2(n0)) - 1) \div 6

\* C10: every matrix passed to or returned by the multiplier, and every
\* Q-block, has assigned offsets i, j with i + size and j + size within
\* NUM_ELEMS and its size x size cells stored at m[i + r][j + c].
C10_ViewsWellFormed ==
    ValidDim(n0) =>
        /\ \A d \in 1..Len(stack) :
              /\ WellFormed(stack[d].a, stack[d].n)
              /\ WellFormed(stack[d].b, stack[d].n)
              /\ \A k \in 1..Len(stack[d].M) :
                    WellFormed(stack[d].M[k], stack[d].n \div 2)
              /\ \A k \in 1..Len(stack[d].Q) :
                    WellFormed(stack[d].Q[k], stack[d].n \div 2)
        /\ status \in {"returned", "done"} => WellFormed(m3, n0)

====
